---- MODULE Spec2Model ----
(***************************************************************************)
(* Model of src/motoit_report_gui.py: pagination discovery                 *)
(* (discover_pages), per-page listing decomposition (parse_page with       *)
(* parse_year_from_detail), the inline year heuristic                      *)
(* (extract_year_from_text), the orchestration and aggregation             *)
(* (run_scrape under _do_work) and the window (class App).                 *)
(*                                                                         *)
(* Five specifications share the module's variables; each one moves its    *)
(* own group of variables and leaves the others at their idle values:      *)
(*   SpecDiscover  one call of discover_pages, one fetch per step          *)
(*   SpecParse     one call of parse_page, one fragment per step           *)
(*   SpecYear      extract_year_from_text applied to a bounded text        *)
(*   SpecRun       one worker thread running run_scrape, one page per step *)
(*   SpecGui       the window's handlers, its worker threads and main loop *)
(***************************************************************************)
EXTENDS Integers, Sequences, FiniteSets, TLC

VARIABLES
    \* ---- discover_pages(base_url, headers, max_pages, delay, log)
    base_url,     \* argument: the search URL, as a sequence of path segments
    max_pages,    \* argument: the page cap
    pages,        \* local: the list being built
    nums,         \* local: the page indices found on the base page
    i,            \* local: the probe loop's index
    d_pc,         \* "base" | "probe" | "returned" | "raised"
    fetched,      \* every fetch() call made so far, in order
    warned,       \* whether log("Impossibile stimare la paginazione ...") ran
    \* ---- parse_page(url, headers, brand, model, verify_detail_year, log)
    page_doc,     \* what fetch(url) returns: the fragments of the page
    brand,        \* argument: brand filter
    model,        \* argument: model filter
    verify_detail_year,
    node,         \* position in listing_blocks(soup), 1-based
    items,        \* local: the records emitted so far
    p_pc,         \* "fetch" | "loop" | "returned" | "raised"
    detail_calls, \* every parse_year_from_detail call: fragment, href, outcome
    trail,        \* per processed fragment: what became of it
    \* ---- extract_year_from_text(txt)
    txt,          \* argument
    y_pc,         \* "call" | "done"
    y_ret,        \* return value
    \* ---- _do_work running run_scrape(cfg, progress_cb, log) in one thread
    run_pages,    \* local pages: what discover_pages returned (page indices)
    total,        \* local: len(pages)
    idx,          \* loop index of enumerate(pages, start=1)
    rows,         \* local: the records collected so far
    df,           \* what run_scrape returned, None while it has not
    r_pc,         \* "begin" | "discover" | "page" | "progress" |
                  \* "aggregate" | "returned" | "raised" | "done"
    calls,        \* the thread's calls so far, in order: fetches, rows.extend,
                  \* and the handlers it scheduled with self.after
    \* ---- App: the form, the buttons, the worker threads, Tk's timer queue
    model_var,    \* the model field, a sequence of characters
    outdir_var,   \* the output folder field, a path: a sequence of names
    user_outdir_modified,  \* self._user_outdir_modified
    run_btn,      \* self.run_btn["state"]: "normal" | "disabled"
    open_btn,     \* self.open_btn["state"]
    pbar,         \* self.pbar["value"]
    status_var,   \* the status line
    threads,      \* the _do_work threads started so far: pc, done, total
    after_queue   \* the handlers scheduled with self.after(0, ...), oldest first

dvars == <<base_url, max_pages, pages, nums, i, d_pc, fetched, warned>>
pvars == <<page_doc, brand, model, verify_detail_year, node, items, p_pc,
           detail_calls, trail>>
yvars == <<txt, y_pc, y_ret>>
rvars == <<run_pages, total, idx, rows, df, r_pc, calls>>
gvars == <<model_var, outdir_var, user_outdir_modified, run_btn, open_btn,
           pbar, status_var, threads, after_queue>>
vars  == <<dvars, pvars, yvars, rvars, gvars>>

\* Optional[int]: None, or an int
None    == [some |-> FALSE, v |-> 0]
Some(x) == [some |-> TRUE, v |-> x]

\* Optional[DataFrame]: no dataset, or a dataset as the sequence of its rows
NoFrame  == [some |-> FALSE, v |-> <<>>]
Frame(s) == [some |-> TRUE, v |-> s]

\* a line of the status bar: a message and, for progress, two numbers
StatusText(m, a, b) == [m |-> m, a |-> a, b |-> b]
NoStatus == StatusText("", 0, 0)

Min(a, b) == IF a <= b THEN a ELSE b
Max(a, b) == IF a >= b THEN a ELSE b

RECURSIVE SetMax(_)
SetMax(S) ==
    LET x == CHOOSE y \in S : TRUE
    IN  IF S = {x} THEN x ELSE Max(x, SetMax(S \ {x}))

(***************************************************************************)
(* URLs.  A URL is the sequence of its "/"-separated segments; a trailing  *)
(* "/" shows as a trailing empty segment, a leading "/" as a leading empty  *)
(* segment, and the empty string is the empty sequence.                    *)
(***************************************************************************)
Seg(s)     == [s |-> s, n |-> 0]
EmptySeg   == Seg("")
PaginaSeg(k) == [s |-> "pagina-", n |-> k]

\* str.rstrip("/")
RECURSIVE RStrip(_)
RStrip(u) ==
    IF u # <<>> /\ u[Len(u)] = EmptySeg
    THEN RStrip(SubSeq(u, 1, Len(u) - 1))
    ELSE u

\* f"{base_url.rstrip('/')}/pagina-{i}"
PageUrl(b, k) == Append(RStrip(b), PaginaSeg(k))

(***************************************************************************)
(* fetch(url, headers): a parsed document, or an exception.                *)
(* raise_for_status() raises requests.HTTPError carrying the status code;  *)
(* requests.get() itself raises ConnectionError / Timeout, which are not   *)
(* HTTPError.  code 0 stands for an HTTPError whose response is None.      *)
(***************************************************************************)
MaxIdx    == 7      \* highest page index a base page may link to
MaxCap    == 5      \* highest max_pages tried
MaxSlash  == 2      \* most trailing "/" of a base URL tried

HttpCodes   == {404, 403, 500, 0}
OtherErrors == {"ConnectionError", "Timeout"}

\* the "href" attributes a document's <a> elements may carry
Hrefs == {[kind |-> "empty", n |-> 0], [kind |-> "other", n |-> 0]}
         \cup {[kind |-> "pagina", n |-> k] : k \in 0..MaxIdx}

\* the words a document's text may hold
PageWords == {"annunci", "Prezzo", "km", "usate", "Nessun risultato"}

\* has_listings(soup)
has_listings(words) ==
    \E k \in {"annunci", "Prezzo", "km", "usate"} : k \in words

\* lines 215-222: the indices of the hrefs matching /pagina-(\d+)
NumsOf(hrefs) == {h.n : h \in {g \in hrefs : g.kind = "pagina"}}

\* as DeclaredPages, with the cap forgotten: range(2, max(nums) + 1)
DeclaredPagesUncapped(b, ns, cap) ==
    [k \in 1..Max(0, SetMax(ns) - 1) |-> PageUrl(b, k + 1)]

\* lines 224-225: pages 2..min(max(nums), max_pages) appended in order
DeclaredPages(b, ns, cap) ==
    [k \in 1..Max(0, Min(SetMax(ns), cap) - 1) |-> PageUrl(b, k + 1)]

\* one entry of the fetch log
Fetch(u, kind, code, listings) ==
    [url |-> u, kind |-> kind, code |-> code, listings |-> listings]

\* as LoopAt, for a loop written range(2, max_pages + 2)
LoopAtOneMore(k) == IF k > max_pages + 1 THEN "returned" ELSE "probe"

\* where the for loop of line 231 stands with index k
LoopAt(k) == IF k > max_pages THEN "returned" ELSE "probe"

\* as BreaksOn, testing for the wrong status
BreaksOnForbidden(code) == code = 403

\* as BreaksOn, breaking on every HTTPError
BreaksOnAny(code) == TRUE

\* the probe loop's break test on an HTTPError (lines 239-241)
BreaksOn(code) == code = 404

BaseUrls ==
    {<<Seg("https://www.moto.it"), Seg("moto-usate"), Seg("honda")>>
        \o [k \in 1..n |-> EmptySeg] : n \in 0..MaxSlash}

DiscoverInit ==
    /\ model_var = <<>> /\ outdir_var = <<>> /\ user_outdir_modified = FALSE
    /\ run_btn = "normal" /\ open_btn = "disabled" /\ pbar = 0
    /\ status_var = NoStatus /\ threads = <<>> /\ after_queue = <<>>
    /\ run_pages = <<>> /\ total = 0 /\ idx = 1 /\ rows = <<>> /\ df = NoFrame
    /\ r_pc = "idle" /\ calls = <<>>
    /\ page_doc = <<>> /\ brand = "" /\ model = <<>> /\ verify_detail_year = FALSE
    /\ node = 1 /\ items = <<>> /\ p_pc = "idle" /\ detail_calls = <<>>
    /\ trail = <<>>
    /\ txt = <<>> /\ y_pc = "idle" /\ y_ret = None
    /\ base_url \in BaseUrls
    /\ max_pages \in 1..MaxCap
    /\ pages = <<RStrip(base_url)>>                      \* line 212
    /\ nums = {}
    /\ i = 2
    /\ d_pc = "base"
    /\ fetched = <<>>
    /\ warned = FALSE

\* lines 214-226: the base page is fetched and links to page indices
BaseDeclared ==
    /\ d_pc = "base"
    /\ \E hrefs \in SUBSET Hrefs :
         /\ NumsOf(hrefs) # {}
         /\ nums' = NumsOf(hrefs)
         /\ pages' = pages \o DeclaredPages(base_url, NumsOf(hrefs), max_pages)
    /\ fetched' = Append(fetched, Fetch(base_url, "ok", 200, FALSE))
    /\ d_pc' = "returned"
    /\ UNCHANGED <<base_url, max_pages, i, warned>>
    /\ UNCHANGED <<pvars, yvars, rvars, gvars>>

\* lines 214-223: the base page is fetched and links to no page index
BaseNoIndex ==
    /\ d_pc = "base"
    /\ \E hrefs \in SUBSET Hrefs :
         /\ NumsOf(hrefs) = {}
         /\ nums' = NumsOf(hrefs)
    /\ fetched' = Append(fetched, Fetch(base_url, "ok", 200, FALSE))
    /\ d_pc' = LoopAt(2)
    /\ UNCHANGED <<base_url, max_pages, pages, i, warned>>
    /\ UNCHANGED <<pvars, yvars, rvars, gvars>>

\* lines 227-229: any exception of the base fetch is logged and dropped
BaseFails ==
    /\ d_pc = "base"
    /\ \/ \E c \in HttpCodes :
            fetched' = Append(fetched, Fetch(base_url, "HTTPError", c, FALSE))
       \/ \E e \in OtherErrors :
            fetched' = Append(fetched, Fetch(base_url, e, 0, FALSE))
    /\ warned' = TRUE
    /\ d_pc' = LoopAt(2)
    /\ UNCHANGED <<base_url, max_pages, pages, nums, i>>
    /\ UNCHANGED <<pvars, yvars, rvars, gvars>>

\* lines 232-237, 242: probe i is fetched and shows listings
ProbeListed ==
    /\ d_pc = "probe"
    /\ \E words \in SUBSET PageWords :
         /\ has_listings(words)
         /\ fetched' = Append(fetched, Fetch(PageUrl(base_url, i), "ok", 200, TRUE))
    /\ pages' = Append(pages, PageUrl(base_url, i))
    /\ i' = i + 1
    /\ d_pc' = LoopAt(i + 1)
    /\ UNCHANGED <<base_url, max_pages, nums, warned>>
    /\ UNCHANGED <<pvars, yvars, rvars, gvars>>

\* lines 232-236: probe i is fetched and shows no listings: break
ProbeEmpty ==
    /\ d_pc = "probe"
    /\ \E words \in SUBSET PageWords :
         /\ ~has_listings(words)
         /\ fetched' = Append(fetched, Fetch(PageUrl(base_url, i), "ok", 200, FALSE))
    /\ d_pc' = "returned"
    /\ UNCHANGED <<base_url, max_pages, pages, nums, i, warned>>
    /\ UNCHANGED <<pvars, yvars, rvars, gvars>>

\* lines 238-242: probe i raises requests.HTTPError: break on 404 only
ProbeHttpError ==
    /\ d_pc = "probe"
    /\ \E c \in HttpCodes :
         /\ fetched' = Append(fetched, Fetch(PageUrl(base_url, i), "HTTPError", c, FALSE))
         /\ IF BreaksOn(c)
            THEN d_pc' = "returned" /\ i' = i
            ELSE d_pc' = LoopAt(i + 1) /\ i' = i + 1
    /\ UNCHANGED <<base_url, max_pages, pages, nums, warned>>
    /\ UNCHANGED <<pvars, yvars, rvars, gvars>>

\* lines 233-238: probe i raises an exception that is no HTTPError; no
\* handler of discover_pages matches it and it leaves the function
ProbeOtherError ==
    /\ d_pc = "probe"
    /\ \E e \in OtherErrors :
         fetched' = Append(fetched, Fetch(PageUrl(base_url, i), e, 0, FALSE))
    /\ d_pc' = "raised"
    /\ UNCHANGED <<base_url, max_pages, pages, nums, i, warned>>
    /\ UNCHANGED <<pvars, yvars, rvars, gvars>>

DiscoverNext ==
    \/ BaseDeclared
    \/ BaseNoIndex
    \/ BaseFails
    \/ ProbeListed
    \/ ProbeEmpty
    \/ ProbeHttpError
    \/ ProbeOtherError

(***************************************************************************)
(* Texts.  A text is a sequence of tokens joined by single blanks (what    *)
(* re.sub(r"\s+", " ", ...) leaves); a token has a kind k, the characters  *)
(* s it is written with, its width w in characters and, when it carries a  *)
(* number, that number y:                                                   *)
(*   "label"  a term of LABEL_NEAR_PAT              ("Anno")                *)
(*   "neg"    a term of NEG_CONTEXT_PAT             ("garanzia")            *)
(*   "year"   four digits matching YEAR_PAT         ("2019")                *)
(*   "date"   month/year matching DATE_PAT          ("03/2020")             *)
(*   "price"  a number followed by the euro sign    ("4.500 €")             *)
(*   "km"     "Km:" followed by a number            ("Km: 8.200")           *)
(*   "loc"    a place followed by "(XX)"            ("Milano (MI)")         *)
(*   "word"   any other word, without digits                                *)
(***************************************************************************)
YEAR_MIN == 1990
YEAR_MAX == 2035
WINDOW   == 16       \* characters kept on each side of a year
LABEL_SCORE    == 10
DATE_BONUS     == 1
ISOLATED_SCORE == 1
NEG_SCORE      == -5
LOW_THRESHOLD  == 1  \* a best score at or below this is no year

Tok(k, s, w, y) == [k |-> k, s |-> s, w |-> w, y |-> y]

Anno     == Tok("label", "Anno", 4, 0)
Immatr   == Tok("label", "Immatricolazione", 16, 0)
Garanzia == Tok("neg", "garanzia", 8, 0)
Filler   == Tok("word", "motoveicolousato", 16, 0)
Year(y)  == Tok("year", "yyyy", 4, y)
Date(y)  == Tok("date", "03/yyyy", 7, y)

InRange(y) == YEAR_MIN <= y /\ y <= YEAR_MAX

\* offset of token k in txt_norm = " " + text + " " (0-based, as Python's)
RECURSIVE Pos(_, _)
Pos(t, k) == IF k = 1 THEN 1 ELSE Pos(t, k - 1) + t[k - 1].w + 1

NormLen(t) == Pos(t, Len(t) + 1)

\* YEAR_PAT.finditer: the tokens holding a four-digit year, in text order
YearToks(t) == {k \in 1..Len(t) : t[k].k \in {"year", "date"}}

\* m.span() of the year inside token k (the last four characters)
SpanI(t, k) == Pos(t, k) + t[k].w - 4
SpanJ(t, k) == Pos(t, k) + t[k].w

\* line 136: window = txt_norm[max(0, i - 16): min(len(txt_norm), j + 16)]
WinLo(t, k) == Max(0, SpanI(t, k) - WINDOW)
WinHi(t, k) == Min(NormLen(t), SpanJ(t, k) + WINDOW)

\* token m lies in the window of year k but for its first `cut` characters
InWindow(t, k, m, cut) ==
    /\ WinLo(t, k) <= Pos(t, m) + cut
    /\ Pos(t, m) + t[m].w <= WinHi(t, k)

\* line 137: LABEL_NEAR_PAT.search(window): a whole label term, preceded by
\* the window's start or a separator and followed by a separator or its end
HasLabel(t, k) == \E m \in 1..Len(t) : t[m].k = "label" /\ InWindow(t, k, m, 0)

\* line 138: NEG_CONTEXT_PAT.search(window)
HasNeg(t, k) == \E m \in 1..Len(t) : t[m].k = "neg" /\ InWindow(t, k, m, 0)

\* line 141: DATE_PAT.search(window); "3/2020" cut out of "03/2020" matches too
HasDate(t, k) ==
    \E m \in 1..Len(t) : t[m].k = "date" /\ InWindow(t, k, m, t[m].w - 6)

\* lines 140-144: the score of year k, or no candidate
Scored(t, k) ==
    IF HasLabel(t, k) /\ ~HasNeg(t, k)
    THEN Some(LABEL_SCORE + (IF HasDate(t, k) THEN DATE_BONUS ELSE 0))
    ELSE IF ~HasLabel(t, k)
    THEN Some(IF ~HasNeg(t, k) THEN ISOLATED_SCORE ELSE NEG_SCORE)
    ELSE None

\* lines 130-144: cands, in the order the years stand in the text
RECURSIVE CandsUpTo(_, _)
CandsUpTo(t, k) ==
    IF k = 0 THEN <<>>
    ELSE IF k \in YearToks(t) /\ InRange(t[k].y) /\ Scored(t, k).some
    THEN Append(CandsUpTo(t, k - 1), [y |-> t[k].y, score |-> Scored(t, k).v])
    ELSE CandsUpTo(t, k - 1)

Cands(t) == CandsUpTo(t, Len(t))

\* as KeyLeq, for the key (t[1], t[0]): ties go to the larger year
KeyLeqLargerYear(a, b) ==
    \/ a.score < b.score
    \/ a.score = b.score /\ a.y <= b.y

\* line 150: the sort key (t[1], -t[0]), compared as Python compares tuples
KeyLeq(a, b) ==
    \/ a.score < b.score
    \/ a.score = b.score /\ (0 - a.y) <= (0 - b.y)

\* list.sort(key=...): stable, ascending
RECURSIVE Insert(_, _)
Insert(sorted, c) ==
    IF sorted = <<>> THEN <<c>>
    ELSE IF KeyLeq(sorted[Len(sorted)], c) THEN Append(sorted, c)
    ELSE Append(Insert(SubSeq(sorted, 1, Len(sorted) - 1), c), sorted[Len(sorted)])

RECURSIVE SortCands(_)
SortCands(cs) ==
    IF cs = <<>> THEN <<>>
    ELSE Insert(SortCands(SubSeq(cs, 1, Len(cs) - 1)), cs[Len(cs)])

\* as PickBest, reading the wrong end of the sorted list: cands[0]
PickFirst(cs) ==
    LET best == SortCands(cs)[1]
    IN  IF best.score <= LOW_THRESHOLD THEN None ELSE Some(best.y)

\* as PickBest, with the threshold test written best_score < 1
PickBestStrict(cs) ==
    LET best == SortCands(cs)[Len(cs)]
    IN  IF best.score < LOW_THRESHOLD THEN None ELSE Some(best.y)

\* lines 151-154
PickBest(cs) ==
    LET best == SortCands(cs)[Len(cs)]
    IN  IF best.score <= LOW_THRESHOLD THEN None ELSE Some(best.y)

\* lines 123-127: the first DATE_PAT match of the text, if any
DateToks(t) == {k \in 1..Len(t) : t[k].k = "date"}
FirstDate(t) == CHOOSE k \in DateToks(t) : \A m \in DateToks(t) : k <= m

extract_year_from_text(t) ==
    IF t = <<>> THEN None
    ELSE IF DateToks(t) # {} /\ InRange(t[FirstDate(t)].y)
    THEN Some(t[FirstDate(t)].y)
    ELSE IF Cands(t) = <<>> THEN None
    ELSE PickBest(Cands(t))

MaxTokens == 4      \* longest text tried

YearVocabulary ==
    {Anno, Immatr, Garanzia, Filler, Year(2019), Year(2021), Date(1985), Date(2020)}

RECURSIVE TextsOfLen(_)
TextsOfLen(n) ==
    IF n = 0 THEN {<<>>}
    ELSE {Append(t, x) : t \in TextsOfLen(n - 1), x \in YearVocabulary}

Texts == UNION {TextsOfLen(n) : n \in 0..MaxTokens}

YearInit ==
    /\ model_var = <<>> /\ outdir_var = <<>> /\ user_outdir_modified = FALSE
    /\ run_btn = "normal" /\ open_btn = "disabled" /\ pbar = 0
    /\ status_var = NoStatus /\ threads = <<>> /\ after_queue = <<>>
    /\ run_pages = <<>> /\ total = 0 /\ idx = 1 /\ rows = <<>> /\ df = NoFrame
    /\ r_pc = "idle" /\ calls = <<>>
    /\ base_url = <<>> /\ max_pages = 1 /\ pages = <<>> /\ nums = {} /\ i = 2
    /\ d_pc = "idle" /\ fetched = <<>> /\ warned = FALSE
    /\ page_doc = <<>> /\ brand = "" /\ model = <<>> /\ verify_detail_year = FALSE
    /\ node = 1 /\ items = <<>> /\ p_pc = "idle" /\ detail_calls = <<>>
    /\ trail = <<>>
    /\ txt \in Texts
    /\ y_pc = "call"
    /\ y_ret = None

\* the call returns
ExtractYear ==
    /\ y_pc = "call"
    /\ y_ret' = extract_year_from_text(txt)
    /\ y_pc' = "done"
    /\ UNCHANGED txt
    /\ UNCHANGED <<dvars, pvars, rvars, gvars>>

YearNext == ExtractYear

(***************************************************************************)
(* parse_page.  A fragment (one node of listing_blocks(soup)) is its text  *)
(* and the href of its first <a href=...>, if it has one.                  *)
(***************************************************************************)
NoLink  == [some |-> FALSE, v |-> <<>>]
Link(u) == [some |-> TRUE, v |-> u]

Word(s, w) == Tok("word", s, w, 0)
Price(v)   == Tok("price", "n.nnn €", 7, v)
Km(v)      == Tok("km", "Km: n.nnn", 9, v)
Loc(s)     == Tok("loc", s, 11, 0)

\* str.lower() on the words the model uses
Lower(s) ==
    CASE s = "Honda" -> "honda"
      [] s = "HONDA" -> "honda"
      [] s = "CBR"   -> "cbr"
      [] s = "Anno"  -> "anno"
      [] s = "Immatricolazione" -> "immatricolazione"
      [] s = "Moto"  -> "moto"
      [] OTHER -> s

\* line 252: brand and brand.lower() not in txt.lower()
BrandOk(b, t) == b = "" \/ \E k \in 1..Len(t) : Lower(t[k].s) = Lower(b)

\* line 254: the model's words, blanks removed, inside the text, blanks removed
ModelOk(m, t) ==
    \/ m = <<>>
    \/ \E k \in 0..(Len(t) - Len(m)) :
         \A j \in 1..Len(m) : Lower(t[k + j].s) = Lower(m[j])

\* the first token of a kind, as re.search finds the leftmost match
FirstOf(t, kind) ==
    LET ks == {k \in 1..Len(t) : t[k].k = kind}
    IN  IF ks = {} THEN 0 ELSE CHOOSE k \in ks : \A m \in ks : k <= m

parse_price(t) ==
    IF FirstOf(t, "price") = 0 THEN None ELSE Some(t[FirstOf(t, "price")].y)

parse_km(t) ==
    IF FirstOf(t, "km") = 0 THEN None ELSE Some(t[FirstOf(t, "km")].y)

parse_location(t) ==
    IF FirstOf(t, "loc") = 0 THEN [some |-> FALSE, v |-> ""]
    ELSE [some |-> TRUE, v |-> t[FirstOf(t, "loc")].s]

\* extract_primary_link(node): hrefs starting with "/" are joined to the site
extract_primary_link(frag) ==
    IF ~frag.link.some THEN NoLink
    ELSE IF Len(frag.link.v) >= 2 /\ frag.link.v[1] = EmptySeg
    THEN Link(<<Seg("https://www.moto.it")>> \o Tail(frag.link.v))
    ELSE frag.link

\* line 266: extract_primary_link(node) or url
HrefOf(frag, url) ==
    LET l == extract_primary_link(frag)
    IN  IF l.some /\ l.v # <<>> THEN l.v ELSE url

\* line 269: verify_detail_year and href and year is None
WantsDetail(verify, href, year) == verify /\ href # <<>> /\ ~year.some

(***************************************************************************)
(* parse_year_from_detail: a detail document is the sequence of the texts  *)
(* of its containers (the whole document when no container is selected).   *)
(***************************************************************************)
HasDigits(x) == x.k \in {"year", "date", "price", "km"}

\* lines 172-175: a label term, at most 12 characters without a digit, a year
LabelledAt(t, m) ==
    /\ t[m].k = "label"
    /\ \E n \in (m + 1)..Len(t) :
         /\ t[n].k = "year"
         /\ \A j \in (m + 1)..(n - 1) : ~HasDigits(t[j])
         /\ Pos(t, n) - (Pos(t, m) + t[m].w) <= 12

LabelledYear(t) ==
    LET ms == {m \in 1..Len(t) : LabelledAt(t, m)}
        m0 == CHOOSE m \in ms : \A k \in ms : m <= k
        n0 == CHOOSE n \in (m0 + 1)..Len(t) :
                 t[n].k = "year" /\ \A j \in (m0 + 1)..(n - 1) : t[j].k # "year"
    IN  IF ms = {} THEN None ELSE Some(t[n0].y)

\* lines 170-189: one container
BoxYear(t) ==
    IF LabelledYear(t).some /\ InRange(LabelledYear(t).v) THEN LabelledYear(t)
    ELSE IF DateToks(t) # {} /\ InRange(t[FirstDate(t)].y) THEN Some(t[FirstDate(t)].y)
    ELSE extract_year_from_text(t)

\* lines 169-191: the containers in document order, the first year wins
RECURSIVE BoxesYear(_)
BoxesYear(boxes) ==
    IF boxes = <<>> THEN None
    ELSE IF BoxYear(Head(boxes)).some THEN BoxYear(Head(boxes))
    ELSE BoxesYear(Tail(boxes))

\* as OnDetailFetchError, without the try/except around fetch
OnDetailFetchErrorRaise == "raise"

\* lines 160-163: what a failed fetch of the detail page becomes
OnDetailFetchError == "return None"

MaxFrags == 2        \* most fragments of a page tried

PageUrlArg == <<Seg("https://www.moto.it"), Seg("moto-usate"), Seg("honda")>>

FragTexts ==
    { <<Word("Honda", 5), Word("CBR", 3), Anno, Year(2019), Price(12500), Km(8200), Loc("Milano (MI)")>>,
      <<Word("Moto", 4), Garanzia, Year(2026), Price(4500)>>,
      <<Word("HONDA", 5), Word("CBR", 3), Anno, Year(2019)>> }

FragLinks ==
    { NoLink,
      Link(<<EmptySeg, Seg("annuncio"), Seg("1")>>),
      Link(<<Seg("https://www.moto.it"), Seg("annuncio"), Seg("2")>>),
      Link(<<>>) }

Fragments == [txt : FragTexts, link : FragLinks]

DetailDocs ==
    { << <<Anno, Year(2018)>> >>,
      << <<Filler>>, <<Word("Moto", 4), Date(2020)>> >>,
      << <<Garanzia, Year(2026)>> >>,
      << <<Anno, Year(1985)>>, <<Immatr, Year(2017)>> >> }

RECURSIVE SeqsOfLen(_, _)
SeqsOfLen(S, n) ==
    IF n = 0 THEN {<<>>}
    ELSE {Append(q, x) : q \in SeqsOfLen(S, n - 1), x \in S}

ParseInit ==
    /\ model_var = <<>> /\ outdir_var = <<>> /\ user_outdir_modified = FALSE
    /\ run_btn = "normal" /\ open_btn = "disabled" /\ pbar = 0
    /\ status_var = NoStatus /\ threads = <<>> /\ after_queue = <<>>
    /\ run_pages = <<>> /\ total = 0 /\ idx = 1 /\ rows = <<>> /\ df = NoFrame
    /\ r_pc = "idle" /\ calls = <<>>
    /\ base_url = <<>> /\ max_pages = 1 /\ pages = <<>> /\ nums = {} /\ i = 2
    /\ d_pc = "idle" /\ fetched = <<>> /\ warned = FALSE
    /\ txt = <<>> /\ y_pc = "idle" /\ y_ret = None
    /\ page_doc \in UNION {SeqsOfLen(Fragments, n) : n \in 1..MaxFrags}
    /\ brand \in {"", "honda"}
    /\ model \in {<<>>, <<"CBR">>}
    /\ verify_detail_year \in BOOLEAN
    /\ node = 1
    /\ items = <<>>
    /\ p_pc = "fetch"
    /\ detail_calls = <<>>
    /\ trail = <<>>

Frag == page_doc[node]

\* as Reportable, without the price test of lines 258-259
ReportableUnpriced(f) ==
    /\ BrandOk(brand, f.txt)
    /\ ModelOk(model, f.txt)

\* the fragment's text passes lines 252-259
Reportable(f) ==
    /\ BrandOk(brand, f.txt)
    /\ ModelOk(model, f.txt)
    /\ parse_price(f.txt).some

\* lines 287-295
Record(f, year, href) ==
    [brand      |-> brand,
     model      |-> model,
     year       |-> year,
     price_eur  |-> parse_price(f.txt),
     km         |-> parse_km(f.txt),
     location   |-> parse_location(f.txt),
     source_url |-> href]

\* what became of fragment `node`
Verdict(v, yearA, source) ==
    [node |-> node, verdict |-> v, yearA |-> yearA, year_source |-> source]

\* the for loop of line 248 moves on (or the function returns, line 296)
NextNode ==
    /\ node' = node + 1
    /\ p_pc' = IF node + 1 > Len(page_doc) THEN "returned" ELSE "loop"

\* line 246: the page is fetched
PageFetched ==
    /\ p_pc = "fetch"
    /\ p_pc' = "loop"
    /\ UNCHANGED <<page_doc, brand, model, verify_detail_year, node, items,
                   detail_calls, trail>>
    /\ UNCHANGED <<dvars, yvars, rvars, gvars>>

\* line 246: fetch raises; parse_page has no handler
PageFetchFails ==
    /\ p_pc = "fetch"
    /\ p_pc' = "raised"
    /\ UNCHANGED <<page_doc, brand, model, verify_detail_year, node, items,
                   detail_calls, trail>>
    /\ UNCHANGED <<dvars, yvars, rvars, gvars>>

\* lines 252-253: the brand filter rejects the fragment
SkipBrand ==
    /\ p_pc = "loop"
    /\ ~BrandOk(brand, Frag.txt)
    /\ trail' = Append(trail, Verdict("brand", None, "-"))
    /\ NextNode
    /\ UNCHANGED <<page_doc, brand, model, verify_detail_year, items, detail_calls>>
    /\ UNCHANGED <<dvars, yvars, rvars, gvars>>

\* lines 254-255: the model filter rejects the fragment
SkipModel ==
    /\ p_pc = "loop"
    /\ BrandOk(brand, Frag.txt)
    /\ ~ModelOk(model, Frag.txt)
    /\ trail' = Append(trail, Verdict("model", None, "-"))
    /\ NextNode
    /\ UNCHANGED <<page_doc, brand, model, verify_detail_year, items, detail_calls>>
    /\ UNCHANGED <<dvars, yvars, rvars, gvars>>

\* lines 257-259: no price
SkipNoPrice ==
    /\ p_pc = "loop"
    /\ BrandOk(brand, Frag.txt)
    /\ ModelOk(model, Frag.txt)
    /\ ~parse_price(Frag.txt).some
    /\ trail' = Append(trail, Verdict("price", None, "-"))
    /\ NextNode
    /\ UNCHANGED <<page_doc, brand, model, verify_detail_year, items, detail_calls>>
    /\ UNCHANGED <<dvars, yvars, rvars, gvars>>

\* lines 261-266, 281-295: the year is read from the card
AcceptCard ==
    /\ p_pc = "loop"
    /\ Reportable(Frag)
    /\ LET year == extract_year_from_text(Frag.txt)
           href == HrefOf(Frag, PageUrlArg)
       IN  /\ year.some
           /\ ~WantsDetail(verify_detail_year, href, year)
           /\ items' = Append(items, Record(Frag, year, href))
           /\ trail' = Append(trail, Verdict("ok", year, "card"))
    /\ NextNode
    /\ UNCHANGED <<page_doc, brand, model, verify_detail_year, detail_calls>>
    /\ UNCHANGED <<dvars, yvars, rvars, gvars>>

\* lines 269, 276-279: no year on the card and no detail lookup
RejectNoYear ==
    /\ p_pc = "loop"
    /\ Reportable(Frag)
    /\ LET year == extract_year_from_text(Frag.txt)
           href == HrefOf(Frag, PageUrlArg)
       IN  /\ ~year.some
           /\ ~WantsDetail(verify_detail_year, href, year)
           /\ trail' = Append(trail, Verdict("year", year, "-"))
    /\ NextNode
    /\ UNCHANGED <<page_doc, brand, model, verify_detail_year, items, detail_calls>>
    /\ UNCHANGED <<dvars, yvars, rvars, gvars>>

\* lines 269-295 with parse_year_from_detail fetching the detail page
DetailLookup ==
    /\ p_pc = "loop"
    /\ Reportable(Frag)
    /\ LET year == extract_year_from_text(Frag.txt)
           href == HrefOf(Frag, PageUrlArg)
       IN  /\ WantsDetail(verify_detail_year, href, year)
           /\ \E doc \in DetailDocs :
                LET y2 == BoxesYear(doc)
                IN  /\ detail_calls' = Append(detail_calls,
                          [node |-> node, href |-> href, ok |-> TRUE, ret |-> y2])
                    /\ IF y2.some
                       THEN /\ items' = Append(items, Record(Frag, y2, href))
                            /\ trail' = Append(trail, Verdict("ok", year, "detail"))
                       ELSE /\ items' = items
                            /\ trail' = Append(trail, Verdict("year", year, "-"))
    /\ NextNode
    /\ UNCHANGED <<page_doc, brand, model, verify_detail_year>>
    /\ UNCHANGED <<dvars, yvars, rvars, gvars>>

\* lines 160-163, 269-279: the fetch of the detail page raises
DetailFetchFails ==
    /\ p_pc = "loop"
    /\ Reportable(Frag)
    /\ LET year == extract_year_from_text(Frag.txt)
           href == HrefOf(Frag, PageUrlArg)
       IN  /\ WantsDetail(verify_detail_year, href, year)
           /\ detail_calls' = Append(detail_calls,
                 [node |-> node, href |-> href, ok |-> FALSE, ret |-> None])
           /\ IF OnDetailFetchError = "return None"
              THEN /\ trail' = Append(trail, Verdict("year", year, "-"))
                   /\ NextNode
              ELSE /\ trail' = trail
                   /\ node' = node
                   /\ p_pc' = "raised"
    /\ UNCHANGED <<page_doc, brand, model, verify_detail_year, items>>
    /\ UNCHANGED <<dvars, yvars, rvars, gvars>>

ParseNext ==
    \/ PageFetched
    \/ PageFetchFails
    \/ SkipBrand
    \/ SkipModel
    \/ SkipNoPrice
    \/ AcceptCard
    \/ RejectNoYear
    \/ DetailLookup
    \/ DetailFetchFails

(***************************************************************************)
(* run_scrape (lines 298-313) as run by the worker thread _do_work (lines  *)
(* 745-784).  A page is named by its index: 1 is the base page, n is       *)
(* /pagina-n.  A row keeps the two columns the aggregation sorts by, and   *)
(* km stands for the remaining columns.  The thread's calls are recorded   *)
(* in order; a handler scheduled with self.after(0, ...) is recorded under *)
(* the handler's name.                                                     *)
(***************************************************************************)
MaxRunPages == 4

Row(y, p, k) == [year |-> y, price_eur |-> p, km |-> k]

\* what one parse_page call may return
PageBatches ==
    { <<>>,
      <<Row(2021, 3000, Some(12000))>>,
      <<Row(2019, 4500, Some(12000)), Row(2019, 3000, Some(12000))>>,
      <<Row(2019, 3000, None), Row(2019, 3000, Some(12000))>>,
      <<Row(2019, 3000, Some(12000)), Row(2021, 3000, Some(12000)),
        Row(2019, 3000, Some(12000))>> }

\* what discover_pages may return: the base page, then increasing indices
RunLists ==
    {l \in UNION {SeqsOfLen(1..MaxRunPages, n) : n \in 1..MaxRunPages} :
        /\ l[1] = 1
        /\ \A k \in 1..(Len(l) - 1) : l[k] < l[k + 1]}

Call(fn, a, b, m) == [fn |-> fn, a |-> a, b |-> b, m |-> m]

\* log(f"Pagina {idx}/{total}: {p}"), line 304
PageLog(k, tot) == Call("log", k, tot, "Pagina")

\* as ProgressCall, counting the pages from 0
ProgressCallFromZero(k, tot) == Call("set_progress", k - 1, tot, "")

\* progress_cb(idx, total), line 307: ui_prog schedules set_progress
ProgressCall(k, tot) == Call("set_progress", k, tot, "")

Status(m) == Call("set_status", 0, 0, m)

\* as OnPageError, with the failing page skipped
OnPageErrorSkip == "skip"

\* run_scrape has no try around parse_page (line 305)
OnPageError == "raise"

\* DataFrame.drop_duplicates: of equal rows the first is kept
RECURSIVE drop_duplicates(_)
drop_duplicates(s) ==
    IF s = <<>> THEN <<>>
    ELSE LET h    == drop_duplicates(SubSeq(s, 1, Len(s) - 1))
             last == s[Len(s)]
         IN  IF \E k \in 1..Len(h) : h[k] = last THEN h ELSE Append(h, last)

\* as RowLeq, comparing the year only
RowLeqYearOnly(a, b) == a.year <= b.year

\* the order of sort_values(["year", "price_eur"], ascending=[True, True])
RowLeq(a, b) ==
    \/ a.year < b.year
    \/ a.year = b.year /\ a.price_eur <= b.price_eur

\* x put after the rows it does not precede (rows equal in both columns
\* keep their order)
RECURSIVE InsertRow(_, _)
InsertRow(s, x) ==
    IF s = <<>> THEN <<x>>
    ELSE IF RowLeq(s[Len(s)], x) THEN Append(s, x)
    ELSE Append(InsertRow(SubSeq(s, 1, Len(s) - 1), x), s[Len(s)])

RECURSIVE sort_values(_)
sort_values(s) ==
    IF s = <<>> THEN <<>>
    ELSE InsertRow(sort_values(SubSeq(s, 1, Len(s) - 1)), s[Len(s)])

\* lines 310-313
Aggregate(rs) ==
    LET d == drop_duplicates(rs)
    IN  IF d # <<>> THEN sort_values(d) ELSE d

RunInit ==
    /\ model_var = <<>> /\ outdir_var = <<>> /\ user_outdir_modified = FALSE
    /\ run_btn = "normal" /\ open_btn = "disabled" /\ pbar = 0
    /\ status_var = NoStatus /\ threads = <<>> /\ after_queue = <<>>
    /\ base_url = <<>> /\ max_pages = 1 /\ pages = <<>> /\ nums = {} /\ i = 2
    /\ d_pc = "idle" /\ fetched = <<>> /\ warned = FALSE
    /\ page_doc = <<>> /\ brand = "" /\ model = <<>> /\ verify_detail_year = FALSE
    /\ node = 1 /\ items = <<>> /\ p_pc = "idle" /\ detail_calls = <<>>
    /\ trail = <<>>
    /\ txt = <<>> /\ y_pc = "idle" /\ y_ret = None
    /\ run_pages = <<>>
    /\ total = 0
    /\ idx = 1
    /\ rows = <<>>
    /\ df = NoFrame
    /\ r_pc = "begin"
    /\ calls = <<>>

\* lines 746-763: the thread logs the URL, schedules the status line and
\* enters run_scrape
DoWorkBegins ==
    /\ r_pc = "begin"
    /\ calls' = calls \o <<Call("log", 0, 0, "URL ricerca"),
                           Status("Scraping in corso...")>>
    /\ r_pc' = "discover"
    /\ UNCHANGED <<run_pages, total, idx, rows, df>>
    /\ UNCHANGED <<dvars, pvars, yvars, gvars>>

\* lines 299-301: discover_pages returns
Discovered ==
    /\ r_pc = "discover"
    /\ \E l \in RunLists :
         /\ run_pages' = l
         /\ total' = Len(l)
    /\ rows' = <<>>
    /\ idx' = 1
    /\ r_pc' = "page"
    /\ UNCHANGED <<df, calls>>
    /\ UNCHANGED <<dvars, pvars, yvars, gvars>>

\* line 299: discover_pages raises (a probe fails with something that is
\* not an HTTP status error)
DiscoverRaises ==
    /\ r_pc = "discover"
    /\ r_pc' = "raised"
    /\ UNCHANGED <<run_pages, total, idx, rows, df, calls>>
    /\ UNCHANGED <<dvars, pvars, yvars, gvars>>

\* lines 303-305: page idx is fetched and decomposed, its rows appended
PageParsed ==
    /\ r_pc = "page"
    /\ \E batch \in PageBatches :
         rows' = rows \o batch
    /\ calls' = calls \o <<PageLog(idx, total),
                           Call("fetch", run_pages[idx], 0, ""),
                           Call("extend", idx, 0, "")>>
    /\ r_pc' = "progress"
    /\ UNCHANGED <<run_pages, total, idx, df>>
    /\ UNCHANGED <<dvars, pvars, yvars, gvars>>

\* line 305: parse_page raises (its fetch at line 246 is not guarded)
PageRaises ==
    /\ r_pc = "page"
    /\ calls' = calls \o <<PageLog(idx, total),
                           Call("fetch", run_pages[idx], 0, "")>>
    /\ IF OnPageError = "raise"
       THEN r_pc' = "raised"
       ELSE r_pc' = "progress"
    /\ UNCHANGED <<run_pages, total, idx, rows, df>>
    /\ UNCHANGED <<dvars, pvars, yvars, gvars>>

\* lines 306-308: the progress callback, the pause, the next iteration
PageProgress ==
    /\ r_pc = "progress"
    /\ calls' = Append(calls, ProgressCall(idx, total))
    /\ idx' = idx + 1
    /\ r_pc' = IF idx < total THEN "page" ELSE "aggregate"
    /\ UNCHANGED <<run_pages, total, rows, df>>
    /\ UNCHANGED <<dvars, pvars, yvars, gvars>>

\* lines 310-313
RunReturns ==
    /\ r_pc = "aggregate"
    /\ df' = Frame(Aggregate(rows))
    /\ r_pc' = "returned"
    /\ UNCHANGED <<run_pages, total, idx, rows, calls>>
    /\ UNCHANGED <<dvars, pvars, yvars, gvars>>

\* lines 765-768
DoWorkEmpty ==
    /\ r_pc = "returned"
    /\ df.v = <<>>
    /\ calls' = calls \o <<Status("Nessun annuncio trovato"),
                           Call("_finish_with_error", 0, 0,
                                "Nessun annuncio trovato")>>
    /\ r_pc' = "done"
    /\ UNCHANGED <<run_pages, total, idx, rows, df>>
    /\ UNCHANGED <<dvars, pvars, yvars, gvars>>

\* lines 770-782
DoWorkCompletes ==
    /\ r_pc = "returned"
    /\ df.v # <<>>
    /\ calls' = calls \o <<Call("to_csv", 0, 0, ""),
                           Status("Genero report..."),
                           Call("generate_report", 0, 0, ""),
                           Call("log", 0, 0, "Salvato CSV"),
                           Call("log", 0, 0, "Report pronto"),
                           Status("Completato"),
                           Call("_enable_open", 0, 0, "")>>
    /\ r_pc' = "done"
    /\ UNCHANGED <<run_pages, total, idx, rows, df>>
    /\ UNCHANGED <<dvars, pvars, yvars, gvars>>

\* lines 770-775, 783-784: writing the CSV or the report raises
DoWorkWriteFails ==
    /\ r_pc = "returned"
    /\ df.v # <<>>
    /\ \E at \in {"to_csv", "generate_report"} :
         calls' = calls \o
             (IF at = "to_csv"
              THEN <<Call("to_csv", 0, 0, "")>>
              ELSE <<Call("to_csv", 0, 0, ""), Status("Genero report..."),
                     Call("generate_report", 0, 0, "")>>)
             \o <<Call("_finish_with_error", 0, 0, "str(e)")>>
    /\ r_pc' = "done"
    /\ UNCHANGED <<run_pages, total, idx, rows, df>>
    /\ UNCHANGED <<dvars, pvars, yvars, gvars>>

\* lines 783-784: what run_scrape raised reaches the except clause
DoWorkExcept ==
    /\ r_pc = "raised"
    /\ calls' = Append(calls, Call("_finish_with_error", 0, 0, "str(e)"))
    /\ r_pc' = "done"
    /\ UNCHANGED <<run_pages, total, idx, rows, df>>
    /\ UNCHANGED <<dvars, pvars, yvars, gvars>>

RunNext ==
    \/ DoWorkBegins
    \/ Discovered
    \/ DiscoverRaises
    \/ PageParsed
    \/ PageRaises
    \/ PageProgress
    \/ RunReturns
    \/ DoWorkEmpty
    \/ DoWorkCompletes
    \/ DoWorkWriteFails
    \/ DoWorkExcept

(***************************************************************************)
(* The window (class App, lines 521-793): the model and output-folder      *)
(* fields, the two buttons, the worker threads on_run starts and the       *)
(* handlers they schedule with self.after(0, ...), which Tk's main loop    *)
(* runs one at a time, oldest first.  A text is a sequence of characters,  *)
(* a path a sequence of names.  Each thread runs _do_work; of run_scrape   *)
(* it keeps the number of pages and how many are done.  The log widget is  *)
(* left out: it is written and never read.                                 *)
(***************************************************************************)
MaxRuns == 2

Letters == {"B", "C", "M", "R", "T", "x"}
Digits  == {"0", "5", "6", "7"}

\* str.strip(): white space removed at both ends
RECURSIVE strip(_)
strip(t) ==
    IF t = <<>> THEN t
    ELSE IF t[1] = " " THEN strip(SubSeq(t, 2, Len(t)))
    ELSE IF t[Len(t)] = " " THEN strip(SubSeq(t, 1, Len(t) - 1))
    ELSE t

\* re.sub(r"[^\w\-\s\.]", "_", ...), one character
SafeChar(c) == IF c \in Letters \cup Digits \cup {"_", "-", " ", "."} THEN c ELSE "_"

\* default_desktop_dir(), lines 506-512
default_desktop_dir == << <<"D", "e", "s", "k", "t", "o", "p">> >>

\* lines 514-516
desktop_model_dir(m) ==
    LET t    == strip(m)
        safe == [k \in 1..Len(t) |-> SafeChar(t[k])]
    IN  Append(default_desktop_dir,
               IF safe = <<>> THEN <<"R", "e", "p", "o", "r", "t">> ELSE safe)

\* line 564
InitialModel == <<"C", "B", "R", " ", "6", "5", "0", " ", "R">>

\* what the model field may be set to
ModelTexts ==
    {InitialModel, <<>>, <<"M", "T", "/", "7">>, <<"M", "T", "_", "7">>,
     <<" ", "M", "T", " ">>}

\* what the folder chooser may return when confirmed
ChooserDirs == { << <<"t", "m", "p">> >> }

\* what the folder entry may hold after a key press in it: the same text
\* (a key that edits nothing), no text, or an edited text
KeyTexts(cur) == {cur, <<>>, << <<"x">> >>}

\* as AutoUpdates, without the test of the flag
AutoUpdatesAlways(modified) == TRUE

\* line 572: if not self._user_outdir_modified
AutoUpdates(modified) == ~modified

\* as RunningState, with the button left enabled
RunningStateNormal == "normal"

\* line 732: the state on_run gives the run button
RunningState == "disabled"

\* what self.run_btn["state"] may evaluate to (line 717): the state as a
\* str, or a Tcl_Obj wrapper, which is equal to no str
StateReads(st) == {st, "Tcl_Obj"}

\* how many pages discover_pages may return to a thread
GuiTotals == {1, 2}

\* int(round(100 * done / max(1, total))), line 711
Pct(done, tot) ==
    LET n == 100 * done
        b == Max(1, tot)
        q == n \div b
        r == n % b
    IN  IF 2 * r < b THEN q
        ELSE IF 2 * r > b THEN q + 1
        ELSE IF q % 2 = 0 THEN q ELSE q + 1

Thread(pc, done, tot) == [pc |-> pc, done |-> done, total |-> tot]

GuiInit ==
    /\ base_url = <<>> /\ max_pages = 1 /\ pages = <<>> /\ nums = {} /\ i = 2
    /\ d_pc = "idle" /\ fetched = <<>> /\ warned = FALSE
    /\ page_doc = <<>> /\ brand = "" /\ model = <<>> /\ verify_detail_year = FALSE
    /\ node = 1 /\ items = <<>> /\ p_pc = "idle" /\ detail_calls = <<>>
    /\ trail = <<>>
    /\ txt = <<>> /\ y_pc = "idle" /\ y_ret = None
    /\ run_pages = <<>> /\ total = 0 /\ idx = 1 /\ rows = <<>> /\ df = NoFrame
    /\ r_pc = "idle" /\ calls = <<>>
    /\ model_var = InitialModel                              \* line 564
    /\ outdir_var = desktop_model_dir(InitialModel)          \* line 569
    /\ user_outdir_modified = FALSE                          \* line 530
    /\ run_btn = "normal"                                    \* line 607
    /\ open_btn = "disabled"                                 \* line 609
    /\ pbar = 0
    /\ status_var = StatusText("Pronto", 0, 0)               \* line 617
    /\ threads = <<>>
    /\ after_queue = <<>>

\* the model field is written; its trace runs on_model_change, lines 571-574
ModelWritten ==
    /\ \E m \in ModelTexts :
         /\ model_var' = m
         /\ outdir_var' = IF AutoUpdates(user_outdir_modified)
                          THEN desktop_model_dir(m)
                          ELSE outdir_var
    /\ UNCHANGED <<user_outdir_modified, run_btn, open_btn, pbar, status_var,
                   threads, after_queue>>
    /\ UNCHANGED <<dvars, pvars, yvars, rvars>>

\* a key is pressed in the folder entry: on_outdir_edit, lines 600-602, then
\* the entry's own handling of the key
OutdirKey ==
    /\ user_outdir_modified' = TRUE
    /\ \E t \in KeyTexts(outdir_var) : outdir_var' = t
    /\ UNCHANGED <<model_var, run_btn, open_btn, pbar, status_var, threads,
                   after_queue>>
    /\ UNCHANGED <<dvars, pvars, yvars, rvars>>

\* "Sfoglia": choose_outdir, lines 694-698; d is empty when the chooser is
\* cancelled
ChooseOutdir ==
    /\ \E d \in ChooserDirs \cup {<<>>} :
         IF d # <<>>
         THEN /\ outdir_var' = d
              /\ user_outdir_modified' = TRUE
         ELSE UNCHANGED <<outdir_var, user_outdir_modified>>
    /\ UNCHANGED <<model_var, run_btn, open_btn, pbar, status_var, threads,
                   after_queue>>
    /\ UNCHANGED <<dvars, pvars, yvars, rvars>>

\* "Genera report": a ttk.Button runs its command only while it is not
\* disabled; on_run, lines 716-743.  The form may be incomplete (line 728)
\* or hold a number that int() rejects (line 722): on_run then ends with
\* nothing changed.
OnRun ==
    /\ run_btn # "disabled"
    /\ Len(threads) < MaxRuns
    /\ \E seen \in StateReads(run_btn), form \in {"ok", "incomplete", "bad number"} :
         IF seen = "disabled" \/ form # "ok"
         THEN UNCHANGED <<run_btn, open_btn, pbar, status_var, threads>>
         ELSE /\ run_btn' = RunningState
              /\ open_btn' = "disabled"
              /\ pbar' = 0
              /\ status_var' = StatusText("Preparazione...", 0, 0)
              /\ threads' = Append(threads, Thread("begin", 0, 0))
    /\ UNCHANGED <<model_var, outdir_var, user_outdir_modified, after_queue>>
    /\ UNCHANGED <<dvars, pvars, yvars, rvars>>

\* lines 746-763 and 299-301: the thread schedules the status line, enters
\* run_scrape, and discover_pages returns
WorkerBegins ==
    /\ \E t \in 1..Len(threads), tot \in GuiTotals :
         /\ threads[t].pc = "begin"
         /\ threads' = [threads EXCEPT ![t] = Thread("scrape", 0, tot)]
    /\ after_queue' = Append(after_queue, Status("Scraping in corso..."))
    /\ UNCHANGED <<model_var, outdir_var, user_outdir_modified, run_btn,
                   open_btn, pbar, status_var>>
    /\ UNCHANGED <<dvars, pvars, yvars, rvars>>

\* lines 302-308: one page done, ui_prog schedules set_progress
WorkerPage ==
    /\ \E t \in 1..Len(threads) :
         /\ threads[t].pc = "scrape"
         /\ threads[t].done < threads[t].total
         /\ threads' = [threads EXCEPT ![t].done = @ + 1]
         /\ after_queue' = Append(after_queue,
                ProgressCall(threads[t].done + 1, threads[t].total))
    /\ UNCHANGED <<model_var, outdir_var, user_outdir_modified, run_btn,
                   open_btn, pbar, status_var>>
    /\ UNCHANGED <<dvars, pvars, yvars, rvars>>

\* lines 770-782: the dataset is written, the report generated
WorkerCompletes ==
    /\ \E t \in 1..Len(threads) :
         /\ threads[t].pc = "scrape"
         /\ threads[t].done = threads[t].total
         /\ threads' = [threads EXCEPT ![t].pc = "ended"]
    /\ after_queue' = after_queue \o <<Status("Genero report..."),
                                       Status("Completato"),
                                       Call("_enable_open", 0, 0, "")>>
    /\ UNCHANGED <<model_var, outdir_var, user_outdir_modified, run_btn,
                   open_btn, pbar, status_var>>
    /\ UNCHANGED <<dvars, pvars, yvars, rvars>>

\* lines 765-768: the dataset is empty
WorkerEmpty ==
    /\ \E t \in 1..Len(threads) :
         /\ threads[t].pc = "scrape"
         /\ threads[t].done = threads[t].total
         /\ threads' = [threads EXCEPT ![t].pc = "ended"]
    /\ after_queue' = after_queue \o <<Status("Nessun annuncio trovato"),
                                       Call("_finish_with_error", 0, 0,
                                            "Nessun annuncio trovato")>>
    /\ UNCHANGED <<model_var, outdir_var, user_outdir_modified, run_btn,
                   open_btn, pbar, status_var>>
    /\ UNCHANGED <<dvars, pvars, yvars, rvars>>

\* lines 783-784: discover_pages, a page, or the writing of the files raises
WorkerRaises ==
    /\ \E t \in 1..Len(threads) :
         /\ threads[t].pc = "scrape"
         /\ threads' = [threads EXCEPT ![t].pc = "ended"]
    /\ after_queue' = Append(after_queue,
                             Call("_finish_with_error", 0, 0, "str(e)"))
    /\ UNCHANGED <<model_var, outdir_var, user_outdir_modified, run_btn,
                   open_btn, pbar, status_var>>
    /\ UNCHANGED <<dvars, pvars, yvars, rvars>>

\* Tk's main loop runs the oldest scheduled handler: set_status (706-708),
\* set_progress (710-713), _enable_open (786-788), _finish_with_error
\* (790-793)
HandleAfter ==
    /\ after_queue # <<>>
    /\ LET h == Head(after_queue)
       IN  /\ status_var' =
                 IF h.fn = "set_status" THEN StatusText(h.m, 0, 0)
                 ELSE IF h.fn = "set_progress"
                      THEN StatusText("Avanzamento", h.a, Pct(h.a, h.b))
                 ELSE status_var
           /\ pbar' = IF h.fn = "set_progress" THEN Pct(h.a, h.b) ELSE pbar
           /\ run_btn' = IF h.fn \in {"_enable_open", "_finish_with_error"}
                         THEN "normal" ELSE run_btn
           /\ open_btn' = IF h.fn = "_enable_open" THEN "normal"
                          ELSE IF h.fn = "_finish_with_error" THEN "disabled"
                          ELSE open_btn
    /\ after_queue' = Tail(after_queue)
    /\ UNCHANGED <<model_var, outdir_var, user_outdir_modified, threads>>
    /\ UNCHANGED <<dvars, pvars, yvars, rvars>>

GuiNext ==
    \/ ModelWritten
    \/ OutdirKey
    \/ ChooseOutdir
    \/ OnRun
    \/ WorkerBegins
    \/ WorkerPage
    \/ WorkerCompletes
    \/ WorkerEmpty
    \/ WorkerRaises
    \/ HandleAfter

(***************************************************************************)
(* Properties of discover_pages (SpecDiscover).                            *)
(***************************************************************************)
\* the probe fetches: every fetch after the first, which is the base page's
Probes == SubSeq(fetched, 2, Len(fetched))

\* the page index a URL of the list stands for
IdxOf(u) == IF u = RStrip(base_url) THEN 1 ELSE u[Len(u)].n

PageIdxs == {IdxOf(pages[k]) : k \in 1..Len(pages)}

Highest(S) == CHOOSE h \in S : \A x \in S : x <= h

\* a probe outcome that ends probing: HTTP "not found", or no listings shown
Stops(e) ==
    \/ e.kind = "HTTPError" /\ e.code = 404
    \/ e.kind = "ok" /\ ~e.listings

\* a probe that failed with an HTTP status other than "not found"
HttpFailure(e) == e.kind = "HTTPError" /\ e.code # 404

\* C1: when the base fetch succeeds and links to page indices, the result is
\* the base URL (trailing "/" stripped) followed by the URLs of pages
\* 2..min(H, cap) in increasing order, max(1, min(H, cap)) entries in all,
\* and no probe is fetched.
C1_DeclaredPagination ==
    nums # {} =>
        /\ d_pc = "returned"
        /\ fetched = <<Fetch(base_url, "ok", 200, FALSE)>>
        /\ Len(pages) = Max(1, Min(Highest(nums), max_pages))
        /\ pages[1] = RStrip(base_url)
        /\ \A k \in 2..Len(pages) :
             pages[k] = Append(RStrip(base_url), [s |-> "pagina-", n |-> k])

\* C1's case: links up to page 7 and a cap of 5 give 5 URLs
C1_Witness ==
    /\ d_pc = "returned"
    /\ nums # {} /\ Highest(nums) = 7
    /\ max_pages = 5
    /\ Len(pages) = 5
    /\ PageIdxs = 1..5

\* C2: without page-index links (or with a failed base fetch) the probes are
\* indices 2, 3, ... up to the cap in order; the first probe that returns
\* "not found" or shows no listings is the last fetch, and neither its page
\* nor a later one is in the result.
C2_ProbedPagination ==
    nums = {} =>
        /\ \A k \in 1..Len(Probes) :
             /\ Probes[k].url = Append(RStrip(base_url), [s |-> "pagina-", n |-> k + 1])
             /\ k + 1 <= max_pages
        /\ \A k \in 1..Len(Probes) :
             Stops(Probes[k]) =>
                 /\ k = Len(Probes)
                 /\ d_pc = "returned"
                 /\ \A x \in PageIdxs : x < k + 1
        /\ (d_pc = "returned" /\ \A k \in 1..Len(Probes) : ~Stops(Probes[k]))
               => Len(Probes) = max_pages - 1

\* C2's case: cap 3, page 2 "not found": exactly the base URL
C2_Witness ==
    /\ d_pc = "returned"
    /\ max_pages = 3
    /\ Len(fetched) = 2
    /\ fetched[1].kind = "ok"
    /\ fetched[2].kind = "HTTPError" /\ fetched[2].code = 404
    /\ pages = <<RStrip(base_url)>>

\* C3: the list starts with the base URL (trailing "/" stripped), holds no
\* URL twice, lists page indices in strictly increasing order and has at
\* most cap entries.
C3_PageListShape ==
    /\ Len(pages) >= 1
    /\ pages[1] = RStrip(base_url)
    /\ \A j, k \in 1..Len(pages) : j < k => pages[j] # pages[k]
    /\ \A j, k \in 1..Len(pages) : j < k => IdxOf(pages[j]) < IdxOf(pages[k])
    /\ Len(pages) <= max_pages

\* C3's case: probing filled the list up to the cap
C3_Witness ==
    /\ d_pc = "returned"
    /\ nums = {}
    /\ max_pages >= 3
    /\ Len(pages) = max_pages

\* C4: discover_pages never propagates a fetch failure: a failed base fetch
\* demotes to probing, and a failed probe fetch of any kind still ends in
\* discover_pages returning the pages collected so far.
C4_NeverPropagates ==
    /\ d_pc # "raised"
    /\ (Len(fetched) >= 1 /\ fetched[1].kind # "ok") => d_pc \in {"probe", "returned"}

\* C5 as stated: the first probe failing with a status other than "not found"
\* or with an unexpected error is the last fetch, and the returned indices are
\* a gap-free run 1..k.
C5_HaltsAtFirstFailure ==
    nums = {} =>
        /\ \A k \in 1..Len(Probes) :
             (HttpFailure(Probes[k]) \/ Probes[k].kind \in OtherErrors) => k = Len(Probes)
        /\ d_pc = "returned" => PageIdxs = 1..Len(pages)

\* C5 amended: a probe failing with an HTTP status other than "not found" does
\* not halt discovery: its index is left out and the next index is probed, up
\* to the cap; the returned indices are 1 and those of the probes that showed
\* listings, so they skip exactly the failed ones.  A failure that is no
\* HTTPError is the last fetch and leaves discover_pages as an exception.
C5_SkipsFailedProbe ==
    nums = {} =>
        /\ \A k \in 1..Len(Probes) :
             HttpFailure(Probes[k]) =>
                 /\ (k + 1) \notin PageIdxs
                 /\ k = Len(Probes) => (d_pc = "probe" \/ k + 1 = max_pages)
        /\ \A k \in 1..Len(Probes) :
             Probes[k].kind \in OtherErrors => (k = Len(Probes) /\ d_pc = "raised")
        /\ PageIdxs = {1} \cup {k + 1 : k \in {j \in 1..Len(Probes) :
                                     Probes[j].kind = "ok" /\ Probes[j].listings}}

\* C5's case: page 2 fails with a status other than 404, page 3 is included
C5_Witness ==
    /\ d_pc = "returned"
    /\ Len(Probes) >= 2
    /\ HttpFailure(Probes[1])
    /\ PageIdxs = {1, 3}

(***************************************************************************)
(* Properties of parse_page (SpecParse).                                   *)
(***************************************************************************)
\* the processed fragments that were emitted, in order
Emitted == SelectSeq(trail, LAMBDA e : e.verdict = "ok")

\* C6: a record is emitted for a fragment only if the fragment passed the
\* brand and model filters, a price was extracted and a year was resolved:
\* every record has a non-null price and a non-null year, and with detail
\* verification disabled a fragment whose year Strategy A leaves unresolved
\* is rejected.
C6_OnlyReportable ==
    /\ Len(items) = Len(Emitted)
    /\ \A j \in 1..Len(items) :
         LET f == page_doc[Emitted[j].node]
         IN  /\ items[j].price_eur.some
             /\ items[j].year.some
             /\ YEAR_MIN <= items[j].year.v /\ items[j].year.v <= YEAR_MAX
             /\ brand = "" \/ \E k \in 1..Len(f.txt) : Lower(f.txt[k].s) = Lower(brand)
             /\ model = <<>> \/ \E k \in 1..Len(f.txt) : Lower(f.txt[k].s) = Lower(model[1])
             /\ \E k \in 1..Len(f.txt) : f.txt[k].k = "price" /\ items[j].price_eur.v = f.txt[k].y
    /\ \A k \in 1..Len(trail) :
         (~verify_detail_year /\ ~extract_year_from_text(page_doc[k].txt).some)
             => trail[k].verdict # "ok"

\* C6's case: verification disabled, one fragment emitted and one rejected
\* for its unresolved year
C6_Witness ==
    /\ p_pc = "returned"
    /\ ~verify_detail_year
    /\ Len(items) = 1
    /\ \E k \in 1..Len(trail) : trail[k].verdict = "year"

\* C7: a detail-page fetch is issued for a fragment only when Strategy A
\* left its year unresolved, detail verification is enabled and the fragment
\* contains its own link.
C7_DetailOnlyWithOwnLink ==
    \A c \in 1..Len(detail_calls) :
        LET f == page_doc[detail_calls[c].node]
        IN  /\ ~extract_year_from_text(f.txt).some
            /\ verify_detail_year
            /\ f.link.some

\* C8: a failed fetch of the detail page is swallowed: the lookup returns
\* unresolved, the fragment is rejected, and parse_page goes on with the
\* remaining fragments in document order; only the fetch of the page itself
\* can end parse_page with an exception.
C8_DetailFailureSwallowed ==
    /\ \A c \in 1..Len(detail_calls) :
         ~detail_calls[c].ok =>
             /\ ~detail_calls[c].ret.some
             /\ detail_calls[c].node <= Len(trail)
             /\ trail[detail_calls[c].node].verdict = "year"
    /\ p_pc = "raised" => detail_calls = <<>>
    /\ \A k \in 1..Len(trail) : trail[k].node = k
    /\ p_pc = "loop" => Len(trail) = node - 1
    /\ p_pc = "returned" => Len(trail) = Len(page_doc)

\* C8's case: the detail fetch of the first fragment failed and the second
\* fragment was still processed and emitted
C8_Witness ==
    /\ p_pc = "returned"
    /\ Len(detail_calls) >= 1
    /\ ~detail_calls[1].ok /\ detail_calls[1].node = 1
    /\ Len(trail) = 2
    /\ trail[1].verdict = "year"
    /\ trail[2].verdict = "ok"
    /\ Len(items) = 1

(***************************************************************************)
(* Properties of extract_year_from_text (SpecYear).                        *)
(***************************************************************************)
\* the years of the text that stand directly after a label term ("Anno 2019")
LabelledYears(t) ==
    {k \in 1..Len(t) : t[k].k = "year" /\ InRange(t[k].y) /\ k > 1 /\ t[k - 1].k = "label"}

\* the other in-range years: unlabeled, or in a negative context
OtherYears(t) ==
    {k \in 1..Len(t) : t[k].k = "year" /\ InRange(t[k].y)} \ LabelledYears(t)

\* one labeled year, one other year, no month/year pattern
OneLabelledOneOther(t) ==
    /\ \A k \in 1..Len(t) : t[k].k # "date"
    /\ Cardinality(LabelledYears(t)) = 1
    /\ Cardinality(OtherYears(t)) = 1

TheLabelled(t) == CHOOSE k \in LabelledYears(t) : TRUE
TheOther(t)    == CHOOSE k \in OtherYears(t) : TRUE

Apart(t) ==
    /\ HasLabel(t, TheLabelled(t))
    /\ ~HasNeg(t, TheLabelled(t))
    /\ ~HasLabel(t, TheOther(t))

Shortcut(t) ==
    \E k \in 1..Len(t) :
        /\ t[k].k = "date"
        /\ \A m \in 1..(k - 1) : t[m].k # "date"
        /\ YEAR_MIN <= t[k].y /\ t[k].y <= YEAR_MAX

CandSet(t) == {Cands(t)[k] : k \in 1..Len(Cands(t))}

TopScore(t) == CHOOSE n \in {c.score : c \in CandSet(t)} : \A c \in CandSet(t) : c.score <= n

SmallestTopYear(t) ==
    CHOOSE y \in {c.y : c \in {d \in CandSet(t) : d.score = TopScore(t)}} :
        \A c \in CandSet(t) : c.score = TopScore(t) => y <= c.y

\* C10: Strategy A picks the candidate with the maximum score and, among the
\* candidates sharing it, the smallest year, whatever the order of the
\* candidates in the text (a top score at or below the threshold is no year).
C10_MaxScoreSmallestYear ==
    (y_pc = "done" /\ ~Shortcut(txt) /\ CandSet(txt) # {})
        => y_ret = IF TopScore(txt) > LOW_THRESHOLD
                   THEN Some(SmallestTopYear(txt))
                   ELSE None

\* C10's case: two candidates share the top score, the larger year stands
\* first in the text, the smaller one is returned
C10_Witness ==
    /\ y_pc = "done"
    /\ ~Shortcut(txt)
    /\ Len(Cands(txt)) = 2
    /\ Cands(txt)[1].score = Cands(txt)[2].score
    /\ Cands(txt)[1].score > LOW_THRESHOLD
    /\ Cands(txt)[1].y > Cands(txt)[2].y
    /\ y_ret = Some(Cands(txt)[2].y)

\* the in-range years of a text
RangeYears(t) == {k \in 1..Len(t) : t[k].k \in {"year", "date"} /\ InRange(t[k].y)}

\* no month/year pattern, and no year has a label term within 16 characters
\* without also having a negative-context term within 16 characters
OnlyWeakSignal(t) ==
    /\ \A k \in 1..Len(t) : t[k].k # "date"
    /\ \A k \in RangeYears(t) : ~(HasLabel(t, k) /\ ~HasNeg(t, k))

\* C11: without a month/year pattern and without a labeled year free of
\* negative context, the best score is at or below the low-positive
\* threshold and the result is unresolved, however many isolated years the
\* text holds.
C11_WeakSignalUnresolved ==
    (y_pc = "done" /\ OnlyWeakSignal(txt)) =>
        /\ \A k \in 1..Len(Cands(txt)) : Cands(txt)[k].score <= LOW_THRESHOLD
        /\ y_ret = None

\* C11's case: nothing but isolated years, more than two of them
C11_Witness ==
    /\ y_pc = "done"
    /\ Len(txt) >= 3
    /\ \A k \in 1..Len(txt) : txt[k].k = "year" /\ InRange(txt[k].y)
    /\ \E j, k \in 1..Len(txt) : txt[j].y # txt[k].y
    /\ \A k \in 1..Len(Cands(txt)) : Cands(txt)[k].score = ISOLATED_SCORE
    /\ Len(Cands(txt)) = Len(txt)
    /\ y_ret = None

(***************************************************************************)
(* Properties of run_scrape and its worker thread (SpecRun).               *)
(***************************************************************************)
IsPageCall(c) == c.fn \in {"fetch", "extend", "set_progress"}

\* the thread's fetches, appends and progress calls, in order
PageCalls == SelectSeq(calls, IsPageCall)

\* run_scrape went through its whole loop
LoopDone == r_pc \in {"aggregate", "returned"} \/ (r_pc = "done" /\ df.some)

\* C12: the pages are visited in list order, one at a time, and the
\* progress callback runs exactly once per completed page with (i, total),
\* i = 1, 2, ..., total, total being the length of the discovered list
\* throughout; the call for page i comes after page i's records were
\* appended and before page i+1 is fetched.
C12_OrderedProgress ==
    r_pc \notin {"idle", "begin", "discover"} =>
        /\ total = Len(run_pages)
        /\ \A n \in 1..Len(PageCalls) :
             LET k == (n + 2) \div 3
             IN  /\ k <= Len(run_pages)
                 /\ n % 3 = 1 => PageCalls[n] = Call("fetch", run_pages[k], 0, "")
                 /\ n % 3 = 2 => PageCalls[n] = Call("extend", k, 0, "")
                 /\ n % 3 = 0 =>
                      PageCalls[n] = Call("set_progress", k, Len(run_pages), "")
        /\ LoopDone => Len(PageCalls) = 3 * Len(run_pages)

\* C12's case: a run over three or more pages, one index missing from the
\* list, has gone through its loop
C12_Witness ==
    /\ r_pc = "returned"
    /\ total >= 3
    /\ \E k \in 1..total : run_pages[k] # k
    /\ Len(PageCalls) = 3 * total
    /\ PageCalls[Len(PageCalls)] = Call("set_progress", total, total, "")

\* the rows of a sequence, as a set
RowSet(q) == {q[k] : k \in 1..Len(q)}

\* C13: the dataset run_scrape returns holds no two field-wise identical
\* records, holds every distinct input record, is ordered by year ascending
\* then price ascending, and the same deduplicate-and-sort step applied to
\* it returns it unchanged.
C13_AggregateCanonical ==
    df.some =>
        /\ \A j, k \in 1..Len(df.v) : df.v[j] = df.v[k] => j = k
        /\ RowSet(df.v) = RowSet(rows)
        /\ \A j, k \in 1..Len(df.v) :
             j < k =>
                \/ df.v[j].year < df.v[k].year
                \/ /\ df.v[j].year = df.v[k].year
                   /\ df.v[j].price_eur <= df.v[k].price_eur
        /\ Aggregate(df.v) = df.v

\* C13's case: the stream repeats a record, is out of order in both
\* columns, and holds two records that differ only outside the sort columns
C13_Witness ==
    /\ r_pc = "returned"
    /\ \E j, k \in 1..Len(rows) : j < k /\ rows[j] = rows[k]
    /\ \E j, k \in 1..Len(rows) : j < k /\ rows[j].year > rows[k].year
    /\ \E j, k \in 1..Len(rows) :
          /\ j < k
          /\ rows[j].year = rows[k].year
          /\ rows[j].price_eur > rows[k].price_eur
    /\ \E j, k \in 1..Len(df.v) :
          /\ df.v[j] # df.v[k]
          /\ df.v[j].year = df.v[k].year
          /\ df.v[j].price_eur = df.v[k].price_eur
    /\ Len(df.v) < Len(rows)
    /\ df.v # rows

\* the positions in PageCalls of the fetches whose page raised: a fetch
\* that no rows.extend follows
FailedFetches ==
    {n \in 1..Len(PageCalls) :
        /\ PageCalls[n].fn = "fetch"
        /\ (n = Len(PageCalls) \/ PageCalls[n + 1].fn # "extend")}

\* how many calls of handler fn the thread has scheduled
Scheduled(fn) == Cardinality({n \in 1..Len(calls) : calls[n].fn = fn})

\* C14: when fetching or decomposing page k raises, run_scrape propagates
\* it: no later page is fetched, no progress callback is issued for page k
\* or a later one, no dataset is returned or written, and the worker
\* schedules one terminal error and nothing after it.
C14_PageFailureAborts ==
    \A n \in FailedFetches :
        LET k == (n + 2) \div 3
        IN  /\ n = Len(PageCalls)
            /\ \A m \in 1..Len(PageCalls) :
                 PageCalls[m].fn = "set_progress" => PageCalls[m].a < k
            /\ df = NoFrame
            /\ Scheduled("to_csv") = 0
            /\ Scheduled("_enable_open") = 0
            /\ r_pc \in {"raised", "done"}
            /\ r_pc = "raised" => Scheduled("_finish_with_error") = 0
            /\ r_pc = "done" =>
                 /\ Scheduled("_finish_with_error") = 1
                 /\ calls[Len(calls)].fn = "_finish_with_error"

\* C14's case: a page after the first raised when earlier pages had given
\* records, and the thread has ended
C14_Witness ==
    /\ r_pc = "done"
    /\ FailedFetches # {}
    /\ \A n \in FailedFetches : n > 3 /\ (n + 2) \div 3 < total
    /\ rows # <<>>
    /\ df = NoFrame
    /\ calls[Len(calls)].fn = "_finish_with_error"

(***************************************************************************)
(* Properties of the window (SpecGui).                                     *)
(***************************************************************************)
Running == {t \in 1..Len(threads) : threads[t].pc # "ended"}

\* C15: the output-folder default is a two-state machine.  While Derived
\* (the flag is unset) every change of the model field sets the output
\* folder to the folder derived from the new model; a key press in the
\* folder entry, and any change of the folder that is not the model's doing
\* (a confirmed chooser selection), moves it to Overridden; once Overridden
\* it stays Overridden and no change of the model changes the folder.
C15_FolderDefault ==
    [][ /\ (~user_outdir_modified /\ model_var' # model_var) =>
              outdir_var' = desktop_model_dir(model_var')
        /\ OutdirKey => user_outdir_modified'
        /\ (outdir_var' # outdir_var /\ model_var' = model_var) =>
              user_outdir_modified'
        /\ user_outdir_modified =>
              /\ user_outdir_modified'
              /\ model_var' # model_var => outdir_var' = outdir_var
      ]_vars

\* C15's case: after a key press that edited nothing the model was changed
\* to one with another derived folder, and the folder still is the first one
C15_Witness ==
    /\ user_outdir_modified
    /\ model_var # InitialModel
    /\ outdir_var = desktop_model_dir(InitialModel)
    /\ desktop_model_dir(model_var) # outdir_var

\* a handler that ends a run
Terminal(c) == c.fn \in {"_enable_open", "_finish_with_error"}

PendingTerminal == \E k \in 1..Len(after_queue) : Terminal(after_queue[k])

\* C16: whatever the clicks and the worker's progress, at most one worker
\* thread is alive at a time, the run button being disabled from the click
\* that starts it; every thread that ends has scheduled a handler that
\* re-enables the button, so a button disabled with no thread alive becomes
\* enabled again.
C16_SingleRun ==
    /\ [](Cardinality(Running) <= 1)
    /\ [](Running # {} => run_btn = "disabled")
    /\ []((run_btn = "disabled" /\ Running = {}) => PendingTerminal)
    /\ ((run_btn = "disabled" /\ Running = {}) ~> (run_btn = "normal"))

\* C16's case: a second run was started after the first one ended; it has
\* ended with an error, its handler has run and the button is enabled again
C16_Witness ==
    /\ Len(threads) >= 2
    /\ Running = {}
    /\ after_queue = <<>>
    /\ run_btn = "normal"
    /\ open_btn = "disabled"

(***************************************************************************)
(* The specifications.  Each starts the variables of the other two at      *)
(* their idle values and never moves them.                                 *)
(***************************************************************************)
SpecDiscover == DiscoverInit /\ [][DiscoverNext]_vars

SpecParse == ParseInit /\ [][ParseNext]_vars

SpecYear == YearInit /\ [][YearNext]_vars

SpecRun == RunInit /\ [][RunNext]_vars

\* Tk's main loop keeps running the handlers that are due
SpecGui == GuiInit /\ [][GuiNext]_vars /\ WF_vars(HandleAfter)

====
